---- MODULE Spec2Model ----
(***************************************************************************)
(* The PTA (v2) board spider: PTA._parse and the parsers and coroutines it *)
(* drives (spider/pta/v2/pta.py), with the Contest record it fills          *)
(* (type/contest.py).                                                       *)
(*                                                                          *)
(* Python values are modelled as follows.  A list is a sequence.  A dict   *)
(* that is iterated is a sequence of <<key, value>> items with distinct    *)
(* keys, in insertion order; a dict that is only looked up is a function.  *)
(* An exception is a record with a "type" field.  None is the string       *)
(* "None".  The event loop is single threaded: the code between two awaits *)
(* is one atomic action.                                                    *)
(***************************************************************************)
EXTENDS Integers, Sequences, FiniteSets, TLC

\* ---------------------------------------------------------------- bounds
\* most team records in a rank snapshot
MaxTeams == 5
\* teams per wave in the interleaving model (the code's batch_size, scaled)
WaveSize == 2
\* most submission records in one team's payload
MaxSubs == 2
\* most submission records in a payload answered to a sweep's request
MaxFetchSubs == 1
\* most entries of problemInfoByProblemSetProblemId
MaxProblems == 2
\* most group records of the groups payload
MaxGroups == 2
\* most teams in the partition model, which uses the code's batch_size
MaxSweepTeams == 250
\* most teams, and most submissions of a team, in the aggregation model
MaxSortTeams == 3
MaxSortSubs == 2
\* most teams in the model of the sweep over given responses
MaxRunTeams == 3

\* ------------------------------------------------------ program constants
kRetryTimes == 5
batch_size == 100

\* ------------------------------------------------------------- utilities
RECURSIVE Range(_)
Range(s) == IF s = <<>> THEN {} ELSE {Head(s)} \cup Range(Tail(s))

Min(a, b) == IF a < b THEN a ELSE b

\* Python's s[a:b] on a list, 0-based, clipped to the list
Slice(s, a, b) == SubSeq(s, a + 1, Min(b, Len(s)))

RECURSIVE Flatten(_)
Flatten(ss) == IF ss = <<>> THEN <<>> ELSE Head(ss) \o Flatten(Tail(ss))

\* all sequences over S of length at most n
SeqsUpTo(S, n) == UNION {[1..k -> S] : k \in 0..n}

\* dict items: keys, lookup, and d[k] = v (an existing key keeps its place)
DictKeys(d) == {d[k][1] : k \in 1..Len(d)}
DictGet(d, key) == (CHOOSE k \in 1..Len(d) : d[k][1] = key)
DictValues(d) == [k \in 1..Len(d) |-> d[k][2]]
DictSet(d, key, val) ==
    IF key \in DictKeys(d)
    THEN [k \in 1..Len(d) |-> IF d[k][1] = key THEN <<key, val>> ELSE d[k]]
    ELSE Append(d, <<key, val>>)

\* ------------------------------------------------------- Python values
Digit(d) ==
    CASE d = 0 -> "0" [] d = 1 -> "1" [] d = 2 -> "2" [] d = 3 -> "3"
      [] d = 4 -> "4" [] d = 5 -> "5" [] d = 6 -> "6" [] d = 7 -> "7"
      [] d = 8 -> "8" [] d = 9 -> "9"

\* str(n) of a non-negative int
RECURSIVE Str(_)
Str(n) == IF n < 10 THEN Digit(n) ELSE Str(n \div 10) \o Digit(n % 10)

\* ord(c) of the one-letter labels the payloads use
Ord(c) == CASE c = "A" -> 65 [] c = "B" -> 66 [] c = "C" -> 67 [] c = "D" -> 68

\* exceptions
NoExc == [type |-> "none", arg |-> ""]
Exc(t, a) == [type |-> t, arg |-> a]

\* a Python value that is None, a dict (items in insertion order) or a list
PyNone == [tag |-> "None", items |-> <<>>]
PyDict(d) == [tag |-> "dict", items |-> d]
PyList(l) == [tag |-> "list", items |-> l]

\* --------------------------------------------------- the remote payloads
Pids == {"p" \o Str(k) : k \in 1..MaxProblems}
Labels == {"A", "B", "C"}
RemoteStatuses == {"ACCEPTED", "WRONG_ANSWER", "PENDING"}
IsoTimes == {"1970-01-01T00:00:01Z", "1970-01-01T00:00:02Z"}

\* utils.get_timestamp_from_iso8601: epoch seconds of an ISO 8601 instant
GetTimestampFromIso8601(iso) ==
    CASE iso = "1970-01-01T00:00:01Z" -> 1
      [] iso = "1970-01-01T00:00:02Z" -> 2
      [] iso = "1970-01-01T00:00:00Z" -> 0
      [] iso = "1970-01-01T05:00:00Z" -> 18000

\* problemInfoByProblemSetProblemId: items p_id -> {label, balloonRgb}
ProblemInfos ==
    {d \in SeqsUpTo(Pids \X [label : Labels, balloonRgb : {"#abc"}], MaxProblems) :
        \A a, b \in 1..Len(d) : d[a][1] = d[b][1] => a = b}

\* xcpcRankings.rankings: the k-th record is the team with teamFid k
RankingsOf(n, excl) ==
    [k \in 1..n |-> [teamFid |-> k, teamInfo |-> [excluded |-> excl[k]]]]
Rankings ==
    UNION {{RankingsOf(n, excl) : excl \in [1..n -> BOOLEAN]} : n \in 0..MaxTeams}

\* a rank snapshot; info_fid says whether teamInfo carries a teamFid key
RankSnapshot(info, rankings, info_fid) ==
    [competitionBasicInfo |->
        [startAt |-> "1970-01-01T00:00:00Z", endAt |-> "1970-01-01T05:00:00Z"],
     problemInfoByProblemSetProblemId |-> info,
     rankings |-> rankings,
     info_fid |-> info_fid]

\* the submission records of one team's payload: every problem reference,
\* with these verdicts and submission times
SubVariants ==
    {<<"ACCEPTED", "1970-01-01T00:00:01Z">>,
     <<"WRONG_ANSWER", "1970-01-01T00:00:02Z">>,
     <<"PENDING", "1970-01-01T00:00:01Z">>}
SubRecords ==
    {[problemSetProblemId |-> p, status |-> v[1], submitAt |-> v[2],
      submissionId |-> "s"] : p \in Pids, v \in SubVariants}
TeamPayloads(n) == SeqsUpTo(SubRecords, n)

\* the groups payload: records {name, fid}
GroupRecord(k) == <<<<"name", "n" \o Str(k)>>, <<"fid", "g" \o Str(k)>>>>
GroupPayloads == {[k \in 1..n |-> GroupRecord(k)] : n \in 0..MaxGroups}

\* what a GET can fail with: a non-200 status (line 56) or a transport fault
HttpErrors == {Exc("Exception", "status 500"), Exc("TimeoutError", "")}

\* ------------------------------------------------------- class Contest
\* Contest(): the defaults of Contest.__init__
NewContest ==
    [start_time |-> 0, end_time |-> 0, problem_quantity |-> 0,
     problem_id |-> <<>>, balloon_color |-> <<>>, group |-> PyNone]

\* the names an attribute lookup on a Contest instance resolves: the fields
\* __init__ sets and the members of the class body
ContestAttributes ==
    {"contest_name", "start_time", "end_time", "frozen_time", "penalty",
     "problem_quantity", "problem_id", "group", "organization",
     "status_time_display", "medal", "balloon_color", "logo",
     "fill_problem_id", "fill_balloon_color", "__dict__", "__json__"}

Color(background_color, color) ==
    [background_color |-> background_color, color |-> color]

\* ------------------------------------------------------------ the parsers
\* PTA._parse_groups: the loop variable is the name `group` itself, so each
\* record rebinds it and `group[fid] = name` writes into that record
RECURSIVE ParseGroupsLoop(_, _)
ParseGroupsLoop(group, records) ==
    IF records = <<>> THEN group
    ELSE LET rec == Head(records)
             name == rec[DictGet(rec, "name")][2]
             fid == rec[DictGet(rec, "fid")][2]
         IN  ParseGroupsLoop(PyDict(DictSet(rec, fid, name)), Tail(records))

ParseGroups(contest, data) ==
    [contest EXCEPT !.group = ParseGroupsLoop(PyDict(<<>>), data)]

\* the dict the loop of _parse_contest fills: p_id -> ord(label) - ord('A')
RECURSIVE ProblemIdsOf(_)
ProblemIdsOf(info) ==
    IF info = <<>> THEN <<>>
    ELSE LET last == info[Len(info)]
         IN  (last[1] :> (Ord(last[2].label) - Ord("A")))
                 @@ ProblemIdsOf(SubSeq(info, 1, Len(info) - 1))

\* the loop of _parse_contest over the items not yet visited; `seen` are the
\* items visited.  Looking up a name the Contest does not have raises.
RECURSIVE ParseContestLoop(_, _, _)
ParseContestLoop(contest, seen, todo) ==
    IF todo = <<>>
    THEN [contest |-> contest, problem_ids |-> ProblemIdsOf(seen), exc |-> NoExc]
    ELSE LET p == Head(todo)[2]
             c1 == [contest EXCEPT !.problem_id = Append(@, p.label)]
         IN  IF "append_balloon_color" \notin ContestAttributes
             THEN [contest |-> c1, problem_ids |-> ProblemIdsOf(seen),
                   exc |-> Exc("AttributeError", "append_balloon_color")]
             ELSE ParseContestLoop(
                      [c1 EXCEPT !.balloon_color =
                                     Append(@, Color(p.balloonRgb, "#000"))],
                      Append(seen, Head(todo)), Tail(todo))

\* PTA._parse_contest: [contest, problem_ids, exc]; problem_ids is the new
\* self._problem_ids, which is assigned only when nothing was raised
ParseContest(contest, old_problem_ids, data) ==
    LET c0 == [contest EXCEPT
                  !.start_time =
                      GetTimestampFromIso8601(data.competitionBasicInfo.startAt),
                  !.end_time =
                      GetTimestampFromIso8601(data.competitionBasicInfo.endAt),
                  !.problem_id = <<>>,
                  !.balloon_color = <<>>]
        r == ParseContestLoop(c0, <<>>, data.problemInfoByProblemSetProblemId)
    IN  IF r.exc # NoExc
        THEN [contest |-> r.contest, problem_ids |-> old_problem_ids, exc |-> r.exc]
        ELSE [contest |-> [r.contest EXCEPT
                              !.problem_quantity = Len(r.contest.problem_id)],
              problem_ids |-> r.problem_ids, exc |-> NoExc]

\* no record is filtered out
Skipped_Never(excluded) == FALSE

\* the test of line 117
Skipped(excluded) == excluded

\* PTA._parse_teams: the Teams dict (items team_id -> Team) and the id set.
\* A Team carries the record's other fields verbatim; no operation reads them.
RECURSIVE ParseTeamsLoop(_, _, _)
ParseTeamsLoop(teams, team_ids, rankings) ==
    IF rankings = <<>> THEN [teams |-> teams, team_ids |-> team_ids]
    ELSE LET r == Head(rankings)
             team_id == Str(r.teamFid)
         IN  IF Skipped(r.teamInfo.excluded)
             THEN ParseTeamsLoop(teams, team_ids, Tail(rankings))
             ELSE ParseTeamsLoop(DictSet(teams, team_id, [team_id |-> team_id]),
                                 team_ids \cup {team_id}, Tail(rankings))

ParseTeams(data) == ParseTeamsLoop(<<>>, {}, data.rankings)

\* PTA._make_fake_runs: reads r['teamInfo']['teamFid'] of every record and
\* builds nothing
MakeFakeRuns(data) ==
    IF data.rankings # <<>> /\ ~data.info_fid
    THEN [runs |-> <<>>, exc |-> Exc("KeyError", "teamFid")]
    ELSE [runs |-> <<>>, exc |-> NoExc]

\* PTA._parse_status
ParseStatus(status) ==
    IF status = "ACCEPTED" THEN "RESULT_ACCEPTED"
    ELSE IF status = "WRONG_ANSWER" THEN "RESULT_WRONG_ANSWER"
    ELSE "RESULT_UNKNOWN"

\* the dict lookup of line 162
KnownProblem(problem_ids, p_id) == p_id \in DOMAIN problem_ids

\* PTA._parse_team_runs: [runs, exc]; nothing is returned when it raises
RECURSIVE ParseTeamRunsLoop(_, _, _, _)
ParseTeamRunsLoop(problem_ids, runs, submissions, team_id) ==
    IF submissions = <<>> THEN [runs |-> runs, exc |-> NoExc]
    ELSE LET submission == Head(submissions)
             p == submission.problemSetProblemId
         IN  IF ~KnownProblem(problem_ids, p)
             THEN [runs |-> <<>>, exc |-> Exc("KeyError", p)]
             ELSE ParseTeamRunsLoop(
                      problem_ids,
                      Append(runs,
                             [team_id |-> team_id,
                              status |-> ParseStatus(submission.status),
                              problem_id |-> problem_ids[p],
                              timestamp |->
                                  GetTimestampFromIso8601(submission.submitAt),
                              submission_id |-> submission.submissionId]),
                      Tail(submissions), team_id)

\* a parse that drops the records whose problem is unknown
ParseTeamRuns_SkipsUnknown(problem_ids, data, team_id) ==
    ParseTeamRunsLoop(
        problem_ids, <<>>,
        SelectSeq(data, LAMBDA r : KnownProblem(problem_ids, r.problemSetProblemId)),
        team_id)

ParseTeamRuns(problem_ids, data, team_id) ==
    ParseTeamRunsLoop(problem_ids, <<>>, data, team_id)

\* ------------------------------------------------- the batch orchestrator
\* range(0, len(teams), size): the loop continues at j while j < len(teams)
InRange(j, n) == j < n

\* a slice that runs to the end of the list
TeamBatch_TakesRest(teams_list, j, size) == Slice(teams_list, j, Len(teams_list))

\* a slice that stops one short
TeamBatch_DropsLast(teams_list, j, size) == Slice(teams_list, j, j + size - 1)

\* list(islice(teams, j, j + size))
TeamBatch(teams_list, j, size) == Slice(teams_list, j, j + size)

\* a pause before every wave, the first included
NeedsPause_Always(j) == j >= 0

\* the test of line 206
NeedsPause(j) == j > 0

\* an insertion that puts an element before its equals
RECURSIVE InsertByTimestamp_Unstable(_, _)
InsertByTimestamp_Unstable(sorted, x) ==
    IF sorted = <<>> THEN <<x>>
    ELSE IF sorted[Len(sorted)].timestamp < x.timestamp THEN Append(sorted, x)
    ELSE Append(InsertByTimestamp_Unstable(SubSeq(sorted, 1, Len(sorted) - 1), x),
                sorted[Len(sorted)])

\* list.sort(key=lambda x: x.timestamp): a stable sort, modelled as the
\* insertion of each element behind every element whose key is not greater
RECURSIVE InsertByTimestamp(_, _)
InsertByTimestamp(sorted, x) ==
    IF sorted = <<>> THEN <<x>>
    ELSE IF sorted[Len(sorted)].timestamp <= x.timestamp THEN Append(sorted, x)
    ELSE Append(InsertByTimestamp(SubSeq(sorted, 1, Len(sorted) - 1), x),
                sorted[Len(sorted)])

RECURSIVE SortLoop(_, _)
SortLoop(sorted, rest) ==
    IF rest = <<>> THEN sorted
    ELSE SortLoop(InsertByTimestamp(sorted, Head(rest)), Tail(rest))

SortByTimestamp(runs) == SortLoop(<<>>, runs)

\* lines 210-211: all_runs.extend(team_run) for each result of the wave, in
\* the order of the wave's teams; extending by None raises
RECURSIVE ExtendAll(_, _)
ExtendAll(runs, team_runs_batch) ==
    IF team_runs_batch = <<>> THEN [runs |-> runs, exc |-> NoExc]
    ELSE IF Head(team_runs_batch).tag # "list"
    THEN [runs |-> runs, exc |-> Exc("TypeError", "extend")]
    ELSE ExtendAll(runs \o Head(team_runs_batch).items, Tail(team_runs_batch))

\* ----------------------------------------- _fetch_and_parse_team_runs tasks
\* The coroutine of one team: its loop index i, where it stands ("fetching":
\* awaiting the GET of attempt i; "done": returned ret; "raised": raised exc;
\* "cancelled": cancelled while awaiting),
\* and `last`, what the try block of the latest attempt raised (NoExc when it
\* has raised nothing).
NewTask(team_id) ==
    IF kRetryTimes > 0
    THEN [team_id |-> team_id, state |-> "fetching", i |-> 0,
          ret |-> PyNone, exc |-> NoExc, last |-> NoExc]
    ELSE [team_id |-> team_id, state |-> "done", i |-> 0,
          ret |-> PyNone, exc |-> NoExc, last |-> NoExc]

\* line 181: return self._parse_team_runs(data, team_id)
AttemptReturns(task, runs) ==
    [task EXCEPT !.state = "done", !.ret = PyList(runs)]

\* a handler that swallows the error, so that the call ends without a value
ExceptHandler_ReturnsNone(task, e) ==
    [task EXCEPT !.state = "done", !.ret = PyNone]

\* a handler that answers a failed team with no submissions
ExceptHandler_ReturnsEmpty(task, e) ==
    [task EXCEPT !.state = "done", !.ret = PyList(<<>>)]

\* a handler that sends the request again without counting the attempt
ExceptHandler_TriesAgain(task, e) == task

\* lines 182-183: except Exception as e: raise e
ExceptHandler(task, e) ==
    [task EXCEPT !.state = "raised", !.exc = e]

\* a gather that hands over as soon as one call has returned
GatherCallback_FirstDone(fut, finished, all_tasks) ==
    IF fut.state # "pending" THEN fut
    ELSE IF finished.state = "raised"
    THEN [state |-> "exception", exc |-> finished.exc]
    ELSE [state |-> "result", exc |-> NoExc]

\* asyncio.gather(*tasks) without return_exceptions, as each task finishes:
\* the first exception settles the outer future, else the last result does
GatherCallback(fut, finished, all_tasks) ==
    IF fut.state # "pending" THEN fut
    ELSE IF finished.state = "raised"
    THEN [state |-> "exception", exc |-> finished.exc]
    ELSE IF \A k \in 1..Len(all_tasks) : all_tasks[k].state = "done"
    THEN [state |-> "result", exc |-> NoExc]
    ELSE fut

\* a gather that cancels the calls still running when one of them fails
SiblingsAfter_CancelsOnFailure(finished, all_tasks) ==
    IF finished.state # "raised" THEN all_tasks
    ELSE [k \in 1..Len(all_tasks) |->
            IF all_tasks[k].state = "fetching"
            THEN [all_tasks[k] EXCEPT !.state = "cancelled",
                                      !.exc = Exc("CancelledError", "")]
            ELSE all_tasks[k]]

\* the calls of the wave after one of them has finished: gather leaves the
\* others alone, whatever the outcome
SiblingsAfter(finished, all_tasks) == all_tasks

\* results handed over last call first
GatherResults_Reversed(all_tasks) ==
    [k \in 1..Len(all_tasks) |-> all_tasks[Len(all_tasks) + 1 - k].ret]

\* the list gather returns: the calls' results in the order of the calls,
\* whenever each of them returned
GatherResults(all_tasks) == [k \in 1..Len(all_tasks) |-> all_tasks[k].ret]

NewGather(all_tasks) ==
    IF \A k \in 1..Len(all_tasks) : all_tasks[k].state = "done"
    THEN [state |-> "result", exc |-> NoExc]
    ELSE [state |-> "pending", exc |-> NoExc]

\* ------------------------------------------------------- the log of effects
GetGroups == <<"GET", "groups">>
GetRank == <<"GET", "xcpc-rankings">>
GetTeam(team_id) == <<"GET", "xcpc-rankings-team-submissions", team_id>>
Sleep == <<"sleep", "1">>
Processed(n) == <<"Processed", Str(n)>>

\* ------------------------------------------------------------- the state
VARIABLES
    fetch_runs,     \* the argument of _parse
    pc,             \* where _parse stands
    exc,            \* the exception _parse raised
    contest,        \* self._contest
    _teams,         \* self._teams: items team_id -> Team
    _team_ids,      \* self._team_ids
    _runs,          \* self._runs
    _problem_ids,   \* self._problem_ids
    rank,           \* _parse's local rank
    teams,          \* _parse's local teams
    all_runs,       \* _parse's local all_runs
    i,              \* _parse's loop index
    tasks,          \* the tasks of the wave being gathered, in wave order
    outer,          \* the future gather returned for that wave
    log,            \* requests issued, pauses taken, progress lines logged
    arg,            \* the arguments of a parser called on its own
    res,            \* what that call returned or raised
    groups,         \* _parse's local groups
    entry           \* how _parse was entered: "run", "_parse", or "none"

vars ==
    <<fetch_runs, pc, exc, contest, _teams, _team_ids, _runs, _problem_ids,
      rank, teams, all_runs, i, tasks, outer, log, arg, res, groups, entry>>

NoGather == [state |-> "none", exc |-> NoExc]
NoCall == [fn |-> "none"]

\* PTA.__init__ with a fresh Contest, before _parse is called
Init ==
    /\ fetch_runs = FALSE
    /\ pc = "init"
    /\ exc = NoExc
    /\ contest = NewContest
    /\ _teams = <<>>
    /\ _team_ids = {}
    /\ _runs = <<>>
    /\ _problem_ids = <<>>
    /\ rank = RankSnapshot(<<>>, <<>>, TRUE)
    /\ teams = <<>>
    /\ all_runs = <<>>
    /\ i = 0
    /\ tasks = <<>>
    /\ outer = NoGather
    /\ log = <<>>
    /\ arg = NoCall
    /\ res = NoCall
    /\ groups = <<>>
    /\ entry = "none"

\* the requests the tasks of a wave issue as they start, in wave order
RECURSIVE FirstRequests(_)
FirstRequests(ts) ==
    IF ts = <<>> THEN <<>>
    ELSE (IF Head(ts).state = "fetching" THEN <<GetTeam(Head(ts).team_id)>> ELSE <<>>)
             \o FirstRequests(Tail(ts))

\* _parse raises e
Raise(e) == pc' = "raised" /\ exc' = e

\* The loop of lines 205-214 from index j on, with `runs` aggregated so far
\* and log `lg`, up to the next await: the end of the loop sorts and installs
\* the runs; otherwise the pause, if one is due, or else the wave's gather.
StartWave(j, lg) ==
    LET team_batch == TeamBatch(teams', j, WaveSize)
        new_tasks == [k \in 1..Len(team_batch) |-> NewTask(team_batch[k].team_id)]
    IN  /\ tasks' = new_tasks
        /\ outer' = NewGather(new_tasks)
        /\ log' = lg \o FirstRequests(new_tasks)
        /\ pc' = "await_gather"

LoopFrom(j, runs, lg) ==
    /\ i' = j
    /\ IF ~InRange(j, Len(teams'))
       THEN /\ all_runs' = SortByTimestamp(runs)
            /\ _runs' = all_runs'
            /\ pc' = "done"
            /\ log' = lg
            /\ UNCHANGED <<tasks, outer>>
       ELSE /\ all_runs' = runs
            /\ UNCHANGED _runs
            /\ IF NeedsPause(j)
               THEN /\ pc' = "await_sleep"
                    /\ log' = Append(lg, Sleep)
                    /\ UNCHANGED <<tasks, outer>>
               ELSE StartWave(j, lg)

\* _parse(fetch_runs) is called: line 191 issues the groups request
StartParse ==
    /\ pc = "init"
    /\ entry' = "_parse"
    /\ fetch_runs' \in BOOLEAN
    /\ pc' = "await_groups"
    /\ log' = Append(log, GetGroups)
    /\ UNCHANGED <<exc, contest, _teams, _team_ids, _runs, _problem_ids, rank,
                   teams, all_runs, i, tasks, outer, arg, res, groups>>

\* asyncio.run(main, *, debug=None) takes the coroutine as its only positional
\* argument: a call with any other number of them raises before a loop exists
AsyncioRun(args) ==
    IF Len(args) = 1 THEN NoExc
    ELSE Exc("TypeError", "run() takes 1 positional argument")

\* the positional arguments PTA.run passes: the bound method and the flag
RunArgs(flag) == <<"self._parse", flag>>

\* run(fetch_runs) is called: asyncio.run(self._parse, fetch_runs)
Run ==
    /\ pc = "init"
    /\ entry' = "run"
    /\ \E flag \in BOOLEAN :
          /\ fetch_runs' = flag
          /\ IF AsyncioRun(RunArgs(flag)) # NoExc
             THEN Raise(AsyncioRun(RunArgs(flag))) /\ UNCHANGED log
             ELSE /\ pc' = "await_groups"
                  /\ log' = Append(log, GetGroups)
                  /\ UNCHANGED exc
    /\ UNCHANGED <<contest, _teams, _team_ids, _runs, _problem_ids, rank,
                   teams, all_runs, i, tasks, outer, arg, res, groups>>

\* the groups request fails: _parse raises
GroupsFail ==
    /\ pc = "await_groups"
    /\ \E e \in HttpErrors : Raise(e)
    /\ UNCHANGED <<fetch_runs, contest, _teams, _team_ids, _runs, _problem_ids,
                   rank, teams, all_runs, i, tasks, outer, log, arg, res, groups, entry>>

\* the groups request answers: lines 192-194 parse it and request the rank
GroupsOk ==
    /\ pc = "await_groups"
    /\ \E data \in GroupPayloads :
          /\ groups' = data
          /\ contest' = ParseGroups(contest, data)
    /\ pc' = "await_rank"
    /\ log' = Append(log, GetRank)
    /\ UNCHANGED <<fetch_runs, exc, _teams, _team_ids, _runs, _problem_ids,
                   rank, teams, all_runs, i, tasks, outer, arg, res, entry>>

\* the rank request fails: _parse raises
RankFail ==
    /\ pc = "await_rank"
    /\ \E e \in HttpErrors : Raise(e)
    /\ UNCHANGED <<fetch_runs, contest, _teams, _team_ids, _runs, _problem_ids,
                   rank, teams, all_runs, i, tasks, outer, log, arg, res, groups, entry>>

\* a test of the flag that never takes the synthesis branch
SynthesizeOnly_Never(flag) == FALSE

\* line 198, `if not fetch_runs:`: the runs are synthesized and _parse returns
SynthesizeOnly(flag) == ~flag

\* the rank request answers: lines 195-204 parse contest and teams, then
\* either synthesize the runs and return or enter the loop of the sweep
RankOk ==
    /\ pc = "await_rank"
    /\ \E info \in ProblemInfos, rk \in Rankings, fid \in BOOLEAN :
          LET data == RankSnapshot(info, rk, fid)
              c == ParseContest(contest, _problem_ids, data)
              t == ParseTeams(data)
              fake == MakeFakeRuns(data)
          IN  /\ fetch_runs => fid
              /\ rank' = data
              /\ contest' = c.contest
              /\ _problem_ids' = c.problem_ids
              /\ IF c.exc # NoExc
                 THEN /\ Raise(c.exc)
                      /\ UNCHANGED <<_teams, _team_ids, _runs, teams, all_runs,
                                     i, tasks, outer, log>>
                 ELSE /\ _teams' = t.teams
                      /\ _team_ids' = t.team_ids
                      /\ IF SynthesizeOnly(fetch_runs)
                         THEN /\ IF fake.exc # NoExc
                                 THEN Raise(fake.exc) /\ UNCHANGED _runs
                                 ELSE /\ _runs' = fake.runs
                                      /\ pc' = "done"
                                      /\ UNCHANGED exc
                              /\ UNCHANGED <<teams, all_runs, i, tasks, outer, log>>
                         ELSE /\ teams' = DictValues(t.teams)
                              /\ UNCHANGED exc
                              /\ LoopFrom(0, <<>>, log)
    /\ UNCHANGED <<fetch_runs, arg, res, groups, entry>>

\* the pause of line 207 is over: lines 208-209 start the wave
SleepDone ==
    /\ pc = "await_sleep"
    /\ UNCHANGED teams
    /\ StartWave(i, log)
    /\ UNCHANGED <<fetch_runs, exc, contest, _teams, _team_ids, _runs,
                   _problem_ids, rank, all_runs, i, arg, res, groups, entry>>

\* what the remote can answer to the submissions request of a team: any
\* payload, or the one the sweep's input fixes for the team
Responses(team_id) ==
    IF arg.fn = "sweep" THEN {arg.remote[team_id]}
    ELSE TeamPayloads(MaxFetchSubs)

\* the GET of task k answers 200 with a payload: line 181 parses it, and
\* what the parse raises goes through the handler of lines 182-183
TaskResponse(k) ==
    /\ tasks[k].state = "fetching"
    /\ \E data \in Responses(tasks[k].team_id) :
          LET r == ParseTeamRuns(_problem_ids, data, tasks[k].team_id)
              h == IF r.exc # NoExc THEN ExceptHandler(tasks[k], r.exc)
                   ELSE AttemptReturns(tasks[k], r.runs)
              t == [h EXCEPT !.last = r.exc]
          IN  /\ tasks' = SiblingsAfter(t, [tasks EXCEPT ![k] = t])
              /\ outer' = GatherCallback(outer, t, tasks')
    /\ UNCHANGED <<fetch_runs, pc, exc, contest, _teams, _team_ids, _runs,
                   _problem_ids, rank, teams, all_runs, i, log, arg, res, groups, entry>>

\* the GET of task k fails: the handler of lines 182-183 gets the error
TaskRequestFails(k) ==
    /\ tasks[k].state = "fetching"
    /\ \E e \in HttpErrors :
          LET t == [ExceptHandler(tasks[k], e) EXCEPT !.last = e]
          IN  /\ tasks' = SiblingsAfter(t, [tasks EXCEPT ![k] = t])
              /\ outer' = GatherCallback(outer, t, tasks')
    /\ UNCHANGED <<fetch_runs, pc, exc, contest, _teams, _team_ids, _runs,
                   _problem_ids, rank, teams, all_runs, i, log, arg, res, groups, entry>>

\* gather returned the wave's results: lines 210-212 aggregate them and log
\* the progress, and the loop goes on
GatherReturns ==
    /\ pc = "await_gather"
    /\ outer.state = "result"
    /\ UNCHANGED teams
    /\ LET team_runs_batch == GatherResults(tasks)
           x == ExtendAll(all_runs, team_runs_batch)
       IN  IF x.exc # NoExc
           THEN /\ Raise(x.exc)
                /\ all_runs' = x.runs
                /\ UNCHANGED <<_runs, i, tasks, outer, log>>
           ELSE /\ UNCHANGED exc
                /\ LoopFrom(i + WaveSize, x.runs,
                            Append(log, Processed(i + Len(tasks))))
    /\ UNCHANGED <<fetch_runs, contest, _teams, _team_ids, _problem_ids, rank,
                   arg, res, groups, entry>>

\* gather raised the first exception of the wave: _parse raises it
GatherRaises ==
    /\ pc = "await_gather"
    /\ outer.state = "exception"
    /\ Raise(outer.exc)
    /\ UNCHANGED <<fetch_runs, contest, _teams, _team_ids, _runs, _problem_ids,
                   rank, teams, all_runs, i, tasks, outer, log, arg, res, groups, entry>>

\* the loop that ran _parse is shut down after _parse raised, as asyncio.run
\* does when its coroutine ends: the calls still awaiting a response are
\* cancelled (CancelledError passes the handler of line 182)
LoopShutdown ==
    /\ pc = "raised"
    /\ \E k \in 1..Len(tasks) : tasks[k].state = "fetching"
    /\ tasks' = [k \in 1..Len(tasks) |->
                    IF tasks[k].state = "fetching"
                    THEN [tasks[k] EXCEPT !.state = "cancelled",
                                          !.exc = Exc("CancelledError", "")]
                    ELSE tasks[k]]
    /\ UNCHANGED <<fetch_runs, pc, exc, contest, _teams, _team_ids, _runs,
                   _problem_ids, rank, teams, all_runs, i, outer, log, arg,
                   res, groups, entry>>

Next ==
    \/ Run
    \/ StartParse
    \/ GroupsFail
    \/ GroupsOk
    \/ RankFail
    \/ RankOk
    \/ SleepDone
    \/ \E k \in 1..Len(tasks) : TaskResponse(k)
    \/ \E k \in 1..Len(tasks) : TaskRequestFails(k)
    \/ GatherReturns
    \/ GatherRaises
    \/ LoopShutdown

Spec == Init /\ [][Next]_vars

\* ------------------------------------------------ the parsers on their own
\* The rest of the state as PTA.__init__ leaves it.
Constructed ==
    /\ fetch_runs = FALSE
    /\ exc = NoExc
    /\ contest = NewContest
    /\ _teams = <<>>
    /\ _team_ids = {}
    /\ rank = RankSnapshot(<<>>, <<>>, TRUE)
    /\ tasks = <<>>
    /\ outer = NoGather
    /\ log = <<>>
    /\ groups = <<>>
    /\ entry = "none"

\* _parse_team_runs as a function of self._problem_ids, data and team_id:
\* the mapping is any the loop of lines 90-97 computes for a problem info
InitRuns ==
    /\ Constructed
    /\ pc = "call"
    /\ \E info \in ProblemInfos, data \in TeamPayloads(MaxSubs) :
          /\ arg = [fn |-> "_parse_team_runs", info |-> info, data |-> data,
                    team_id |-> "7"]
          /\ _problem_ids = ProblemIdsOf(info)
    /\ res = NoCall
    /\ _runs = <<>>
    /\ teams = <<>>
    /\ all_runs = <<>>
    /\ i = 0

CallParseTeamRuns ==
    /\ pc = "call"
    /\ arg.fn = "_parse_team_runs"
    /\ LET r == ParseTeamRuns(_problem_ids, arg.data, arg.team_id)
       IN  res' = [fn |-> "_parse_team_runs", runs |-> r.runs, exc |-> r.exc]
    /\ pc' = "returned"
    /\ UNCHANGED <<fetch_runs, exc, contest, _teams, _team_ids, _runs,
                   _problem_ids, rank, teams, all_runs, i, tasks, outer, log, arg, groups, entry>>

NextRuns == CallParseTeamRuns

SpecRuns == InitRuns /\ [][NextRuns]_vars

\* ------------------------------------------- the partition into waves alone
\* The loop of lines 203-209 with the code's batch_size over n teams, every
\* wave taken as one step; res collects the waves in the order issued.
TeamsUpTo(n) == [k \in 1..n |-> [team_id |-> Str(k)]]

InitWaves ==
    /\ Constructed
    /\ pc = "loop"
    /\ \E n \in 0..MaxSweepTeams : teams = TeamsUpTo(n)
    /\ i = 0
    /\ arg = [fn |-> "waves"]
    /\ res = [fn |-> "waves", waves |-> <<>>]
    /\ _runs = <<>>
    /\ _problem_ids = <<>>
    /\ all_runs = <<>>

WaveStep ==
    /\ pc = "loop"
    /\ arg.fn = "waves"
    /\ InRange(i, Len(teams))
    /\ res' = [res EXCEPT !.waves = Append(@, TeamBatch(teams, i, batch_size))]
    /\ i' = i + batch_size
    /\ UNCHANGED <<fetch_runs, pc, exc, contest, _teams, _team_ids, _runs,
                   _problem_ids, rank, teams, all_runs, tasks, outer, log, arg, groups, entry>>

WavesEnd ==
    /\ pc = "loop"
    /\ arg.fn = "waves"
    /\ ~InRange(i, Len(teams))
    /\ pc' = "done"
    /\ UNCHANGED <<fetch_runs, exc, contest, _teams, _team_ids, _runs,
                   _problem_ids, rank, teams, all_runs, i, tasks, outer, log,
                   arg, res, groups, entry>>

NextWaves == WaveStep \/ WavesEnd

SpecWaves == InitWaves /\ [][NextWaves]_vars

\* ------------------------------------------- aggregation and the final sort
\* Lines 210-214 over the results the waves return: arg.results[k] is what
\* the k-th team's call returned, teams being gathered WaveSize at a time.
Timestamps == {GetTimestampFromIso8601(iso) : iso \in IsoTimes}

RunsOfTeam(k, stamps) ==
    [m \in 1..Len(stamps) |->
        [team_id |-> Str(k), status |-> "RESULT_UNKNOWN", problem_id |-> 0,
         timestamp |-> stamps[m], submission_id |-> "s" \o Str(m)]]

InitSort ==
    /\ Constructed
    /\ pc = "aggregate"
    /\ \E stamps \in SeqsUpTo(SeqsUpTo(Timestamps, MaxSortSubs), MaxSortTeams) :
          arg = [fn |-> "sort",
                 results |-> [k \in 1..Len(stamps) |-> RunsOfTeam(k, stamps[k])]]
    /\ res = NoCall
    /\ i = 0
    /\ all_runs = <<>>
    /\ _runs = <<>>
    /\ _problem_ids = <<>>
    /\ teams = <<>>

\* lines 210-211 for the wave at index i
AggregateWave ==
    /\ pc = "aggregate"
    /\ InRange(i, Len(arg.results))
    /\ LET team_runs_batch ==
               [k \in 1..Len(TeamBatch(arg.results, i, WaveSize)) |->
                   PyList(TeamBatch(arg.results, i, WaveSize)[k])]
       IN  all_runs' = ExtendAll(all_runs, team_runs_batch).runs
    /\ i' = i + WaveSize
    /\ UNCHANGED <<fetch_runs, pc, exc, contest, _teams, _team_ids, _runs,
                   _problem_ids, rank, teams, tasks, outer, log, arg, res, groups, entry>>

\* lines 213-214
SortAndInstall ==
    /\ pc = "aggregate"
    /\ ~InRange(i, Len(arg.results))
    /\ all_runs' = SortByTimestamp(all_runs)
    /\ _runs' = all_runs'
    /\ pc' = "done"
    /\ UNCHANGED <<fetch_runs, exc, contest, _teams, _team_ids, _problem_ids,
                   rank, teams, i, tasks, outer, log, arg, res, groups, entry>>

NextSort == AggregateWave \/ SortAndInstall

SpecSort == InitSort /\ [][NextSort]_vars

\* -------------------------------------------- the sweep over given responses
\* Lines 202-214 as a function of self._teams, self._problem_ids and what the
\* remote holds for each team.  The mapping knows the problem p1 only.
SweepInfo == <<<<"p1", [label |-> "A", balloonRgb |-> "#abc"]>>>>

SweepRecord(p_id, status, iso) ==
    [problemSetProblemId |-> p_id, status |-> status, submitAt |-> iso,
     submissionId |-> "s"]

\* a team's payload: nothing, one submission at either instant, or a
\* submission to a problem the contest does not have
SweepPayloads ==
    {<<>>,
     <<SweepRecord("p1", "ACCEPTED", "1970-01-01T00:00:01Z")>>,
     <<SweepRecord("p1", "WRONG_ANSWER", "1970-01-01T00:00:02Z")>>,
     <<SweepRecord("p2", "ACCEPTED", "1970-01-01T00:00:01Z")>>}

\* _parse(True) is running and has the rank snapshot to parse
InitSweep ==
    /\ Constructed
    /\ pc = "sweep_input"
    /\ _problem_ids = <<>>
    /\ _runs = <<>>
    /\ teams = <<>>
    /\ all_runs = <<>>
    /\ i = 0
    /\ arg = NoCall
    /\ res = NoCall

\* _parse(True) comes to line 202: the teams are parsed from a snapshot, the
\* mapping is that of SweepInfo, and the remote holds a payload for each team
SweepInput ==
    /\ pc = "sweep_input"
    /\ pc' = "sweep"
    /\ fetch_runs' = TRUE
    /\ entry' = "_parse"
    /\ log' = <<GetGroups, GetRank>>
    /\ \E n \in 0..MaxRunTeams :
          LET data == RankSnapshot(SweepInfo,
                                   RankingsOf(n, [k \in 1..n |-> FALSE]), TRUE)
              t == ParseTeams(data)
          IN  /\ rank' = data
              /\ _teams' = t.teams
              /\ _team_ids' = t.team_ids
              /\ \E remote \in [t.team_ids -> SweepPayloads] :
                    arg' = [fn |-> "sweep", remote |-> remote]
    /\ _problem_ids' = ProblemIdsOf(SweepInfo)
    /\ UNCHANGED <<exc, contest, _runs, teams, all_runs, i, tasks, outer, res,
                   groups>>

\* lines 202-209: the team list, the empty aggregate and the first wave
SweepStart ==
    /\ pc = "sweep"
    /\ teams' = DictValues(_teams)
    /\ UNCHANGED exc
    /\ LoopFrom(0, <<>>, log)
    /\ UNCHANGED <<fetch_runs, contest, _teams, _team_ids, _problem_ids, rank,
                   arg, res, groups, entry>>

NextSweep ==
    \/ SweepInput
    \/ SweepStart
    \/ SleepDone
    \/ \E k \in 1..Len(tasks) : TaskResponse(k)
    \/ \E k \in 1..Len(tasks) : TaskRequestFails(k)
    \/ GatherReturns
    \/ GatherRaises
    \/ LoopShutdown

SpecSweep == InitSweep /\ [][NextSweep]_vars

\* ======================================================== the sweep's claims
IsTeamGet(e) == Len(e) = 3
Attempts(task) == task.i + 1
Failed(task) == task.last # NoExc
Parsed == pc \notin {"init", "await_groups", "await_rank"}
Pauses == Len(SelectSeq(log, LAMBDA e : e = Sleep))

\* C1: a call of _fetch_and_parse_team_runs fails only after kRetryTimes
\* failed attempts: an attempt that fails before the cap is followed by
\* another attempt.
C1_FailsOnlyAfterCap ==
    \A k \in 1..Len(tasks) :
        tasks[k].state = "raised" => Attempts(tasks[k]) = kRetryTimes

\* C2: when the last attempt of a call failed, the call has raised the error
\* of that attempt and has returned nothing; the error gather raises is the
\* error of a failed call, and it is the error _parse raises to its caller.
C2_LastErrorSurfaces ==
    /\ \A k \in 1..Len(tasks) :
          Failed(tasks[k]) =>
              /\ tasks[k].state = "raised"
              /\ tasks[k].exc = tasks[k].last
              /\ tasks[k].ret = PyNone
    /\ (\E k \in 1..Len(tasks) : Failed(tasks[k])) =>
          /\ outer.state = "exception"
          /\ \E k \in 1..Len(tasks) : outer.exc = tasks[k].last
          /\ pc \in {"await_gather", "raised"}
          /\ pc = "raised" => exc = outer.exc

C2_Witness ==
    /\ pc = "raised"
    /\ \E k \in 1..Len(tasks) : Failed(tasks[k]) /\ exc = tasks[k].last

\* C3: once the fetch of a team of any wave has failed, _parse does not go on
\* to a later wave, does not return, and self._runs stays empty; when _parse
\* has raised, self._runs is empty.
C3_AllOrNothing ==
    /\ (\E k \in 1..Len(tasks) : Failed(tasks[k])) =>
          pc \in {"await_gather", "raised"} /\ _runs = <<>>
    /\ pc = "raised" => _runs = <<>>

C3_Witness ==
    /\ pc = "raised"
    /\ i > 0
    /\ \E k \in 1..Len(tasks) : Failed(tasks[k])
    /\ \E k \in 1..Len(tasks) : tasks[k].state = "done"

\* C6: a pause directly follows the progress line of a wave and, once over,
\* is directly followed by the first request of the next wave; the progress
\* line of a wave is followed by nothing but a pause; the first request of a
\* wave follows a pause or, for the first wave, the rank request; and the
\* sweep does not end on a pause.
C6_PauseBetweenWaves ==
    /\ \A p \in 1..Len(log) :
          /\ log[p] = Sleep =>
                /\ p > 1 /\ log[p - 1][1] = "Processed"
                /\ p < Len(log) => IsTeamGet(log[p + 1])
          /\ (log[p][1] = "Processed" /\ p < Len(log)) => log[p + 1] = Sleep
          /\ (IsTeamGet(log[p]) /\ p > 1 /\ ~IsTeamGet(log[p - 1])) =>
                log[p - 1] \in {Sleep, GetRank}
    /\ (log # <<>> /\ log[Len(log)] = Sleep) => pc = "await_sleep"
    /\ pc = "await_sleep" => log[Len(log)] = Sleep

C6_Witness == pc = "done" /\ Pauses = 2

\* C7: no team record whose exclusion flag is set has its id in self._teams
\* or in self._team_ids, and no request for its submissions is issued.
C7_ExcludedNeverMaterialized ==
    \A k \in 1..Len(rank.rankings) :
        rank.rankings[k].teamInfo.excluded =>
            /\ Str(rank.rankings[k].teamFid) \notin DictKeys(_teams)
            /\ Str(rank.rankings[k].teamFid) \notin _team_ids
            /\ GetTeam(Str(rank.rankings[k].teamFid)) \notin Range(log)

C7_Witness ==
    /\ pc = "done" /\ fetch_runs
    /\ _teams # <<>>
    /\ \E k \in 1..Len(rank.rankings) : rank.rankings[k].teamInfo.excluded

\* C10: after _parse_contest, contest.problem_id, contest.balloon_color and
\* problemInfoByProblemSetProblemId have the same length, which is
\* contest.problem_quantity.
C10_ContestLengthsAgree ==
    Parsed =>
        /\ Len(contest.problem_id) = contest.problem_quantity
        /\ Len(contest.balloon_color) = contest.problem_quantity
        /\ Len(rank.problemInfoByProblemSetProblemId) = contest.problem_quantity

\* ================================================ the claims of the parsers
AllKnown(data) ==
    \A k \in 1..Len(data) : KnownProblem(_problem_ids, data[k].problemSetProblemId)
FirstUnknown(data) ==
    CHOOSE k \in 1..Len(data) :
        /\ ~KnownProblem(_problem_ids, data[k].problemSetProblemId)
        /\ \A m \in 1..(k - 1) :
              KnownProblem(_problem_ids, data[m].problemSetProblemId)

C9_UnknownProblemFails ==
    (pc = "returned" /\ ~AllKnown(arg.data)) =>
        /\ res.exc =
               Exc("KeyError", arg.data[FirstUnknown(arg.data)].problemSetProblemId)
        /\ res.runs = <<>>

C9_Witness ==
    /\ pc = "returned"
    /\ Len(arg.data) = 2
    /\ KnownProblem(_problem_ids, arg.data[1].problemSetProblemId)
    /\ ~KnownProblem(_problem_ids, arg.data[2].problemSetProblemId)
    /\ res.exc.type = "KeyError"

\* =================================================== the claims of the waves
Ceil(n, b) == (n + b - 1) \div b

\* C5: the waves issued so far are, concatenated, the teams before the loop
\* index, in input order; every wave but the last of the sweep has batch_size
\* teams; when the loop is over there are ceil(N / batch_size) waves and the
\* last one has N - batch_size * (ceil(N / batch_size) - 1) teams.
C5_WavesPartition ==
    LET n == Len(teams)
        w == res.waves
    IN  /\ Flatten(w) = SubSeq(teams, 1, Min(i, n))
        /\ \A k \in 1..Len(w) : k < Ceil(n, batch_size) => Len(w[k]) = batch_size
        /\ pc = "done" =>
              /\ Len(w) = Ceil(n, batch_size)
              /\ Len(w) > 0 => Len(w[Len(w)]) = n - batch_size * (Len(w) - 1)

C5_Witness ==
    /\ pc = "done"
    /\ Len(teams) = 250
    /\ [k \in 1..Len(res.waves) |-> Len(res.waves[k])] = <<100, 100, 50>>

\* ==================================================== the claims of the sort
Concatenation == Flatten(arg.results)
At(runs, t) == SelectSeq(runs, LAMBDA r : r.timestamp = t)

\* C4: the runs installed after all waves are in non-decreasing order of
\* timestamp, and the runs of any one timestamp are in the order they have in
\* the concatenation of the results (wave by wave, team by team, record by
\* record).
C4_SortedStable ==
    pc = "done" =>
        /\ \A p \in 1..(Len(_runs) - 1) : _runs[p].timestamp <= _runs[p + 1].timestamp
        /\ Len(_runs) = Len(Concatenation)
        /\ \A t \in Timestamps : At(_runs, t) = At(Concatenation, t)

C4_Witness ==
    /\ pc = "done"
    /\ _runs # Concatenation
    /\ \E p \in 1..(Len(_runs) - 1) :
          /\ _runs[p].timestamp = _runs[p + 1].timestamp
          /\ _runs[p].team_id = "1"
          /\ _runs[p + 1].team_id = "3"

\* ------------------------------------------------------------------ C11
\* the groups resource has been fetched and parsed (the rank request that
\* follows it is the second line of the log)
GroupsParsed == Len(log) >= 2

\* the items fid -> name of the records of a "groups" list
GroupItems(records) ==
    {<<rec[DictGet(rec, "fid")][2], rec[DictGet(rec, "name")][2]>> :
        rec \in Range(records)}

\* C11: after _parse_groups, contest.group is a dict with exactly one item
\* fid -> name for every record of the payload's "groups" list and no other
\* key.
C11_GroupMapping ==
    GroupsParsed =>
        /\ contest.group.tag = "dict"
        /\ Range(contest.group.items) = GroupItems(groups)

\* ------------------------------------------------------------------ C12
\* C12: a run(fetch_runs) that has ended fetched the groups first, then the
\* rank snapshot exactly once, issued every per-team request after both, and,
\* with fetch_runs = True and no failed fetch, has installed the sorted
\* aggregate as self._runs.
C12_RunPipeline ==
    (entry = "run" /\ pc \in {"done", "raised"}) =>
        /\ Len(log) >= 1
        /\ log[1] = GetGroups
        /\ \A p \in 1..Len(log) : log[p] = GetRank => p = 2
        /\ \A p \in 1..Len(log) : IsTeamGet(log[p]) => p > 2
        /\ (/\ fetch_runs
            /\ exc \notin HttpErrors
            /\ \A k \in 1..Len(tasks) : ~Failed(tasks[k]))
              => (pc = "done" /\ _runs = SortByTimestamp(all_runs))

\* ------------------------------------------------------------------ C13
\* C13: with fetch_runs = False no per-team submission request is issued, no
\* per-team call exists and no pause happens; a _parse that returns has
\* installed what _make_fake_runs makes of the rank snapshot.
C13_NoFetchWithoutFlag ==
    ~fetch_runs =>
        /\ \A p \in 1..Len(log) : ~IsTeamGet(log[p])
        /\ Pauses = 0
        /\ tasks = <<>>
        /\ pc = "done" => _runs = MakeFakeRuns(rank).runs

\* _parse(False) has returned for more teams than one wave of a sweep holds
C13_Witness ==
    /\ ~fetch_runs
    /\ pc = "done"
    /\ Len(_teams) > WaveSize

\* ------------------------------------------------------------------ C14
\* the per-team calls whose request is outstanding
InFlight == {k \in 1..Len(tasks) : tasks[k].state = "fetching"}

\* C14: while a per-team fetch of the wave is in flight, no step issues a
\* request of another wave, pauses, logs progress, aggregates, advances the
\* loop index, sorts or installs; _parse leaves the gather only by raising the
\* error of a call of this wave that has failed.
C14_BatchesSequential ==
    [][InFlight # {} =>
          /\ log' = log
          /\ all_runs' = all_runs
          /\ _runs' = _runs
          /\ i' = i
          /\ pc' # pc =>
                /\ pc' = "raised"
                /\ \E k \in 1..Len(tasks) : tasks[k].state = "raised"]_vars

\* the second wave is in flight, one call back and one outstanding
C14_Witness ==
    /\ pc = "await_gather"
    /\ i = WaveSize
    /\ InFlight # {}
    /\ \E k \in 1..Len(tasks) : tasks[k].state = "done"

C16_InFlightWithinBatch ==
    /\ Cardinality(InFlight) <= WaveSize
    /\ \A k \in InFlight :
          /\ k <= WaveSize
          /\ i + k <= Len(teams)
          /\ tasks[k].team_id = teams[i + k].team_id

\* a full wave after the first has every request in flight
C16_Witness ==
    /\ pc = "await_gather"
    /\ i = WaveSize
    /\ Cardinality(InFlight) = WaveSize

\* ------------------------------------------------------------------ C17
\* C17: all_runs has one writer.  While a per-team fetch is in flight it does
\* not change; the step in which a per-team call returns or raises changes
\* nothing but that call and the gather waiting for it; and all_runs changes
\* only in the orchestrator's step out of a gather whose calls have all
\* returned.
C17_SingleWriter ==
    [][/\ InFlight # {} => all_runs' = all_runs
       /\ \A k \in InFlight :
             (k <= Len(tasks') /\ tasks'[k].state \in {"done", "raised"}) =>
                /\ UNCHANGED <<all_runs, _runs, _teams, _team_ids, _problem_ids,
                               contest, teams, i, log, pc, exc>>
                /\ \A m \in 1..Len(tasks) : m # k => tasks'[m] = tasks[m]
       /\ all_runs' # all_runs =>
             /\ pc = "await_gather"
             /\ pc' # pc
             /\ \A k \in 1..Len(tasks) : tasks[k].state = "done"]_vars

\* a later wave is in flight while all_runs holds the runs of an earlier one
C17_Witness ==
    /\ pc = "await_gather"
    /\ InFlight # {}
    /\ all_runs # <<>>

\* ------------------------------------------------------------------ C18
\* the runs _parse_team_runs makes of what the remote holds for a team
ParsedOf(team) ==
    ParseTeamRuns(_problem_ids, arg.remote[team.team_id], team.team_id).runs

\* the per-team runs in the order of the team list, one after the other
InTeamOrder == Flatten([k \in 1..Len(teams) |-> ParsedOf(teams[k])])

\* C18: the installed sequence is a function of the teams and their responses
\* alone, whatever the order in which the fetches of a wave completed: the
\* stable sort of the per-team runs concatenated in team order.
C18_OrderIndependent ==
    pc = "done" => _runs = SortByTimestamp(InTeamOrder)

\* a sweep of more than one wave has installed runs of the first two teams
\* that carry the same timestamp
C18_Witness ==
    /\ pc = "done"
    /\ Len(teams) > WaveSize
    /\ \E p \in 1..(Len(_runs) - 1) :
          /\ _runs[p].timestamp = _runs[p + 1].timestamp
          /\ _runs[p].team_id = "1"
          /\ _runs[p + 1].team_id = "2"

\* ------------------------------------------------------------------ C19
\* how often x occurs in a sequence
Count(seq, x) == Cardinality({p \in 1..Len(seq) : seq[p] = x})

\* the runs parsed for the teams of self._teams, team after team
ParsedOfTeams == Flatten([k \in 1..Len(_teams) |-> ParsedOf(_teams[k][2])])

\* C19: when the sweep has returned, every team of self._teams was requested
\* exactly once and no other team was; self._runs holds the runs parsed for
\* those teams, each as often as it was parsed; and every run's team_id is a
\* key of self._teams.
C19_EveryTeamOnce ==
    pc = "done" =>
        /\ \A id \in DictKeys(_teams) : Count(log, GetTeam(id)) = 1
        /\ \A p \in 1..Len(log) :
              IsTeamGet(log[p]) => log[p][3] \in DictKeys(_teams)
        /\ Len(_runs) = Len(ParsedOfTeams)
        /\ \A x \in Range(_runs) \cup Range(ParsedOfTeams) :
              Count(_runs, x) = Count(ParsedOfTeams, x)
        /\ \A p \in 1..Len(_runs) : _runs[p].team_id \in DictKeys(_teams)

\* a sweep of more than one wave has returned with runs of every team
C19_Witness ==
    /\ pc = "done"
    /\ Len(_teams) > WaveSize
    /\ \A id \in DictKeys(_teams) :
          \E p \in 1..Len(_runs) : _runs[p].team_id = id

\* ------------------------------------------------------------------ C20
\* The sweep under the scheduling the event loop gives it: every request
\* outstanding gets its response or its failure (the per-request timeout),
\* the pause of line 207 ends, and the orchestrator runs on once its gather
\* is settled.
RequestCompletes(k) ==
    /\ k \in 1..Len(tasks)
    /\ (TaskResponse(k) \/ TaskRequestFails(k))

SpecSweepFair ==
    /\ SpecSweep
    /\ WF_vars(SweepStart)
    /\ WF_vars(SleepDone)
    /\ \A k \in 1..WaveSize : WF_vars(RequestCompletes(k))
    /\ WF_vars(GatherReturns \/ GatherRaises)

\* C20: a sweep that has started eventually installs the sorted result or
\* fails.
C20_SweepTerminates == (pc = "sweep") ~> (pc \in {"done", "raised"})

\* a sweep of as many teams as the model has returned after its last wave
C20_Witness ==
    /\ pc = "done"
    /\ Len(teams) = MaxRunTeams
    /\ i >= Len(teams)

====
